---- MODULE Spec2Model ----
(***************************************************************************)
(* PlexM8 local backend (src/tools/python): the Flask application with its *)
(* before_request initialization hook, the route handlers of the           *)
(* playlists, ratings, recommendations and health blueprints, and the      *)
(* PlexService adapter in front of the external media server.              *)
(*                                                                         *)
(* Numbers.  Ratings are floats in the program.  The model writes every    *)
(* rating, on either scale, as an integer count of quarter points          *)
(* (8 is 32, 7.25 is 29, native 16 is 64), so that rating * 2 and          *)
(* userRating / 2 are exact on the values the model uses.                  *)
(*                                                                         *)
(* Start-up.  app.py:101 names `cors`, which the module never binds, so    *)
(* importing app.py as it stands raises NameError; the model describes     *)
(* the application once it is serving requests.                            *)
(*                                                                         *)
(* Threads.  app.run(threaded=True) serves every request on a thread of    *)
(* its own; a request is a process whose pc walks through the hook         *)
(* initialize_services and then through its route handler.                 *)
(***************************************************************************)
EXTENDS Integers, Sequences, FiniteSets, TLC

\* ------------------------------------------------------------------ bounds
\* Number of requests (threads) the server receives in a run.
MaxRequests == 2

\* Number of playlists the external server can hold.
MaxPlaylists == 3

Requests == 1..MaxRequests

\* ------------------------------------------------------- values of Python
\* Python's None where a number is expected (an absent JSON field or query
\* parameter, an unrated track).
None == -1000

\* Python's None where a string is expected.
NoneStr == "<None>"

\* quarter points of n rating points
Pts(n) == 4 * n

\* ------------------------------------------------------------------- state
VARIABLES
    plex_service,                  \* app.plex_service: 0 is None, else an instance
    playlists_plex_service,        \* api.playlists.plex_service
    ratings_plex_service,          \* api.ratings.plex_service
    recommendations_plex_service,  \* api.recommendations.plex_service
    instances,                     \* number of PlexService instances built so far
    userRating,                    \* external server: track key -> native rating
    srvPlaylists,                  \* external server: sequence of playlists
    req,                           \* the requests (threads)
    resp,                          \* the last response sent
    overlapped                     \* a request arrived while another was in hand

lifecycle == <<plex_service, playlists_plex_service, ratings_plex_service,
               recommendations_plex_service, instances>>
server == <<userRating, srvPlaylists>>
vars == <<plex_service, playlists_plex_service, ratings_plex_service,
          recommendations_plex_service, instances, userRating, srvPlaylists,
          req, resp, overlapped>>

\* The tracks of the 'Music' library section, in scan order.
LibraryTracks == <<"t1", "t2">>

TrackKeys == {LibraryTracks[n] : n \in 1..Len(LibraryTracks)}

\* A request before it arrives.
\*   pc         position of the thread
\*   found      what the hook's test of plex_service saw: "-", "None", "Ready"
\*   attempts   PlexService constructions started by this request
\*   failed     the construction raised
\*   inst       the instance this request constructed (0: none); the model
\*              names the instance after the request that constructed it
\*   arg        the value loaded as the argument of the pending set_plex_service
\*   lateStart  the shared reference was already set when the request arrived
\*   afterFail  a construction had already failed when the request arrived
NewRequest ==
    [pc |-> "new", found |-> "-", attempts |-> 0, failed |-> FALSE, inst |-> 0,
     arg |-> 0, lateStart |-> FALSE, afterFail |-> FALSE]

\* No response yet.
NoResponse ==
    [route |-> "-", status |-> 0, error |-> "", message |-> "",
     ops |-> 0, args |-> <<>>, body |-> <<>>, count |-> 0,
     found |-> "-", attempts |-> 0, failed |-> FALSE, avail |-> FALSE,
     ratings |-> <<>>]

Init ==
    /\ plex_service = 0
    /\ playlists_plex_service = 0
    /\ ratings_plex_service = 0
    /\ recommendations_plex_service = 0
    /\ instances = 0
    /\ userRating = [k \in TrackKeys |-> IF k = "t1" THEN Pts(16) ELSE None]
    /\ srvPlaylists = << [key |-> "p1", title |-> "Rock", playlistType |-> "audio",
                          items |-> <<"t1", "t2">>],
                         [key |-> "p2", title |-> "Clips", playlistType |-> "video",
                          items |-> <<>>] >>
    /\ req = [i \in Requests |-> NewRequest]
    /\ resp = NoResponse
    /\ overlapped = FALSE

\* --------------------------------------------------- app.initialize_services
\* A request arrives: Flask starts its thread; the hook has not run yet.
\* Requests are numbered in the order of their arrival.  overlapped records
\* that the thread starts while the thread of another request is running.
Arrive(i) ==
    /\ req[i].pc = "new"
    /\ \A j \in 1..(i - 1) : req[j].pc # "new"
    /\ req' = [req EXCEPT ![i].pc = "hook",
                          ![i].lateStart = (plex_service # 0),
                          ![i].afterFail = (\E j \in Requests : req[j].failed)]
    /\ overlapped' = (overlapped \/ \E j \in Requests : req[j].pc \notin {"new", "done"})
    /\ UNCHANGED <<lifecycle, server, resp>>

\* Variant of the test that constructs whatever the shared reference holds.
initialize_services_test_always(i) ==
    /\ req[i].pc = "hook"
    /\ req' = [req EXCEPT ![i].pc = "construct",
                          ![i].found = IF plex_service = 0 THEN "None" ELSE "Ready"]
    /\ UNCHANGED <<lifecycle, server, resp, overlapped>>

\* `if plex_service is None:` (app.py:58)
initialize_services_test(i) ==
    /\ req[i].pc = "hook"
    /\ IF plex_service = 0
         THEN req' = [req EXCEPT ![i].pc = "construct", ![i].found = "None"]
         ELSE req' = [req EXCEPT ![i].pc = "dispatch", ![i].found = "Ready"]
    /\ UNCHANGED <<lifecycle, server, resp, overlapped>>

\* Variant of the failure path that leaves the unconnected object in the
\* shared reference.
ConstructionFailed_publishing(i) ==
    /\ req' = [req EXCEPT ![i].pc = "dispatch", ![i].failed = TRUE,
                          ![i].attempts = @ + 1]
    /\ plex_service' = i
    /\ UNCHANGED <<playlists_plex_service, ratings_plex_service,
                   recommendations_plex_service, instances, server, resp, overlapped>>

\* When PlexService(...) raises (app.py:73-75): the failure is logged and
\* nothing else happens.
ConstructionFailed(i) ==
    /\ req' = [req EXCEPT ![i].pc = "dispatch", ![i].failed = TRUE,
                          ![i].attempts = @ + 1]
    /\ UNCHANGED <<lifecycle, server, resp, overlapped>>

\* PlexService.__init__ / _connect (plex_service.py:16-41), called at
\* app.py:61: PlexServer(url, token) connects to the external server and
\* either returns a session or raises (Unauthorized, connection error).
PlexService_init(i) ==
    /\ req[i].pc = "construct"
    /\ \E connected \in BOOLEAN :
         IF connected
           THEN /\ instances' = instances + 1
                /\ req' = [req EXCEPT ![i].pc = "publish", ![i].inst = i,
                                      ![i].attempts = @ + 1]
                /\ UNCHANGED <<plex_service, playlists_plex_service,
                               ratings_plex_service, recommendations_plex_service,
                               server, resp, overlapped>>
           ELSE ConstructionFailed(i)

\* `plex_service = <the new instance>` (app.py:61): the store of the global.
initialize_services_store(i) ==
    /\ req[i].pc = "publish"
    /\ plex_service' = req[i].inst
    /\ req' = [req EXCEPT ![i].pc = "load_playlists"]
    /\ UNCHANGED <<playlists_plex_service, ratings_plex_service,
                   recommendations_plex_service, instances, server, resp, overlapped>>

\* The argument of a set_plex_service(plex_service) call (app.py:68-70) is
\* the global as it is when the argument is evaluated.
LoadArg(i, at, next) ==
    /\ req[i].pc = at
    /\ req' = [req EXCEPT ![i].pc = next, ![i].arg = plex_service]
    /\ UNCHANGED <<lifecycle, server, resp, overlapped>>

load_playlists(i) == LoadArg(i, "load_playlists", "set_playlists")
load_ratings(i) == LoadArg(i, "load_ratings", "set_ratings")
load_recommendations(i) == LoadArg(i, "load_recommendations", "set_recommendations")

\* api/playlists.py:13-18
playlists_set_plex_service(i) ==
    /\ req[i].pc = "set_playlists"
    /\ playlists_plex_service' = req[i].arg
    /\ req' = [req EXCEPT ![i].pc = "load_ratings"]
    /\ UNCHANGED <<plex_service, ratings_plex_service, recommendations_plex_service,
                   instances, server, resp, overlapped>>

\* api/ratings.py:13-18
ratings_set_plex_service(i) ==
    /\ req[i].pc = "set_ratings"
    /\ ratings_plex_service' = req[i].arg
    /\ req' = [req EXCEPT ![i].pc = "load_recommendations"]
    /\ UNCHANGED <<plex_service, playlists_plex_service, recommendations_plex_service,
                   instances, server, resp, overlapped>>

\* api/recommendations.py:13-18
recommendations_set_plex_service(i) ==
    /\ req[i].pc = "set_recommendations"
    /\ recommendations_plex_service' = req[i].arg
    /\ req' = [req EXCEPT ![i].pc = "dispatch", ![i].arg = 0]
    /\ UNCHANGED <<plex_service, playlists_plex_service, ratings_plex_service,
                   instances, server, resp, overlapped>>

\* ------------------------------------------------------------ the responses
\* A handler returns: the response is sent and the thread ends.
\* The response remembers what the hook of its request did (found,
\* attempts, failed); of the thread itself only the failure of its
\* construction stays on record.
\* It also remembers whether the plex_service global of the handler's module
\* (service) was set when the handler ran, and the ratings the server held.
Respond(i, service, r) ==
    /\ req' = [req EXCEPT ![i] = [NewRequest EXCEPT !.pc = "done",
                                                    !.failed = req[i].failed]]
    /\ resp' = [r EXCEPT !.found = req[i].found, !.attempts = req[i].attempts,
                         !.failed = req[i].failed, !.avail = (service # 0),
                         !.ratings = userRating]
    /\ UNCHANGED overlapped

\*   status, error, message, body, count   what the client receives
\*   avail   the plex_service of the handler's module was set
\*   ratings the server's ratings when the handler ran
\*   ops     adapter operations the handler invoked
\*   args    the request's parameters
\*   found, attempts, failed   what the hook of the same request did
Response(route, args, status, error, message, ops, body, count) ==
    [route |-> route, status |-> status, error |-> error,
     message |-> message, ops |-> ops, args |-> args,
     body |-> body, count |-> count, found |-> "-", attempts |-> 0,
     failed |-> FALSE, avail |-> FALSE, ratings |-> <<>>]

\* Variant answering with the status of a ServiceUnavailable envelope.
NotInitialized_503(route, args) ==
    Response(route, args, 503, "Plex service not initialized", "", 0, <<>>, 0)

\* `if not plex_service: return jsonify({'error': 'Plex service not
\* initialized'}), 500`, the first statement of every non-health handler.
NotInitialized(route, args) ==
    Response(route, args, 500, "Plex service not initialized", "", 0, <<>>, 0)

\* ------------------------------------------------------------ api/health.py
HealthBody == [status |-> "ok", backend |-> "python-plexapi"]

\* Variant that reports the state of the adapter.
health_check_reporting_service(i) ==
    /\ req[i].pc = "dispatch"
    /\ IF plex_service = 0
         THEN Respond(i, 0, Response("health", <<>>, 500, "Plex service not initialized",
                                     "", 0, [status |-> "error", backend |-> "python-plexapi"], 0))
         ELSE Respond(i, 0, Response("health", <<>>, 200, "", "", 0, HealthBody, 0))
    /\ UNCHANGED <<lifecycle, server>>

health_check(i) ==
    /\ req[i].pc = "dispatch"
    /\ Respond(i, 0, Response("health", <<>>, 200, "", "", 0, HealthBody, 0))
    /\ UNCHANGED <<lifecycle, server>>


\* `return jsonify({'error': ...}), 400`: a validator rejected the request.
BadRequest(route, args, error) ==
    Response(route, args, 400, error, "", 0, <<>>, 0)

\* Variant that maps the kind of the error to a status.
Failed_by_kind(route, args, error, message) ==
    Response(route, args,
             IF message = "NotFound" THEN 404
             ELSE IF message = "Unsupported source" THEN 400 ELSE 500,
             error, message, 1, <<>>, 0)

\* `except Exception as e: return jsonify({'error': ..., 'message': str(e)}),
\* 500`: the adapter operation raised.
Failed(route, args, error, message) ==
    Response(route, args, 500, error, message, 1, <<>>, 0)

\* The adapter operation returned.
Success(route, args, status, body, count) ==
    Response(route, args, status, "", "", 1, body, count)

\* ------------------------------------------------- services/plex_service.py
\* What an adapter operation gives back: it raised (with str(e)) or it
\* returned a value.
Raised(message) == [raised |-> TRUE, message |-> message, value |-> <<>>]
Returned(value) == [raised |-> FALSE, message |-> "", value |-> value]

\* Python's s[:limit]
SliceTo(s, limit) ==
    IF limit >= 0
      THEN SubSeq(s, 1, IF limit < Len(s) THEN limit ELSE Len(s))
      ELSE SubSeq(s, 1, Len(s) + limit)

\* Variant that writes the public value unscaled.
ToNative_unscaled(rating) == rating

\* rating * 2 (plex_service.py:152): the public 0-10 scale to the native one.
ToNative(rating) == rating * 2

\* (userRating or 0) / 2 (plex_service.py:195): the native scale to the
\* public one.  Every native value of the model is an even count of quarter
\* points, on which \div is the exact division.
ToPublic(native) == (IF native = None THEN 0 ELSE native) \div 2

\* Variant that returns the whole collection, whatever the type asked for.
PlexService_get_playlists_unfiltered(playlist_type, netOk) ==
    IF ~netOk THEN Raised("ConnectionError")
    ELSE Returned([n \in 1..Len(srvPlaylists) |->
                      [key |-> srvPlaylists[n].key, title |-> srvPlaylists[n].title,
                       type |-> srvPlaylists[n].playlistType,
                       leafCount |-> Len(srvPlaylists[n].items)]])

\* plex.playlists() filtered by playlistType (plex_service.py:53-76)
PlexService_get_playlists(playlist_type, netOk) ==
    IF ~netOk THEN Raised("ConnectionError")
    ELSE LET matching == SelectSeq(srvPlaylists,
                                   LAMBDA pl : pl.playlistType = playlist_type)
         IN  Returned([n \in 1..Len(matching) |->
                          [key |-> matching[n].key, title |-> matching[n].title,
                           type |-> matching[n].playlistType,
                           leafCount |-> Len(matching[n].items)]])

\* plex.playlist(key).items()[:limit] (plex_service.py:89-110)
PlexService_get_playlist_items(playlist_key, limit, netOk) ==
    IF ~netOk THEN Raised("ConnectionError")
    ELSE IF ~\E n \in 1..Len(srvPlaylists) : srvPlaylists[n].key = playlist_key
      THEN Raised("NotFound")
    ELSE LET playlist == srvPlaylists[CHOOSE n \in 1..Len(srvPlaylists) :
                                          srvPlaylists[n].key = playlist_key]
             items == SliceTo(playlist.items, limit)
         IN  Returned([n \in 1..Len(items) |->
                          [key |-> items[n], userRating |-> userRating[items[n]]]])

\* The key the server gives to its n-th playlist.
PlaylistKey(n) == "p" \o ToString(n)

\* plex.createPlaylist(title, items=[]) (plex_service.py:124-136); the
\* playlist the server adds is returned with its server-assigned key.
PlexService_create_playlist(title, description, netOk) ==
    IF ~netOk THEN Raised("ConnectionError")
    ELSE Returned([key |-> PlaylistKey(Len(srvPlaylists) + 1), title |-> title,
                   type |-> "audio", itemCount |-> 0])

\* The server's playlists after createPlaylist.
CreatedPlaylists(title) ==
    Append(srvPlaylists,
           [key |-> PlaylistKey(Len(srvPlaylists) + 1), title |-> title,
            playlistType |-> "audio", items |-> <<>>])

\* plex.library.getByKey(track_key).rate(rating * 2) (plex_service.py:149-158)
PlexService_rate_track(track_key, rating, netOk) ==
    IF ~netOk THEN Raised("ConnectionError")
    ELSE IF track_key \notin TrackKeys THEN Raised("NotFound")
    ELSE Returned(TRUE)

\* Variant that gives the rating to every track of the library.
RatedTracks_all(track_key, rating) ==
    [k \in TrackKeys |-> ToNative(rating)]

\* The server's ratings after track.rate(rating * 2).
RatedTracks(track_key, rating) ==
    [userRating EXCEPT ![track_key] = ToNative(rating)]

\* list.sort(key=userRating, reverse=True): a stable sort, so tracks of equal
\* rating keep their order (insertion of each element after its equals).
RECURSIVE SortedByRatingDesc(_)
SortedByRatingDesc(s) ==
    IF s = <<>> THEN <<>>
    ELSE LET rest == SortedByRatingDesc(SubSeq(s, 1, Len(s) - 1))
             x == s[Len(s)]
             before == SelectSeq(rest, LAMBDA k : userRating[k] >= userRating[x])
             after == SelectSeq(rest, LAMBDA k : userRating[k] < userRating[x])
         IN  before \o <<x>> \o after

\* plex_service.py:171-203
PlexService_get_top_rated_tracks(min_rating, limit, netOk) ==
    IF ~netOk THEN Raised("ConnectionError")
    ELSE LET rated_tracks ==
                 SelectSeq(LibraryTracks,
                           LAMBDA k : /\ userRating[k] # None
                                      /\ userRating[k] >= min_rating * 2)
             top == SliceTo(SortedByRatingDesc(rated_tracks), limit)
         IN  Returned([n \in 1..Len(top) |->
                          [key |-> top[n], userRating |-> ToPublic(userRating[top[n]])]])

\* str.lower() on the source names the model uses
Lower(source) == IF source = "iTunes" THEN "itunes" ELSE source

\* _sync_itunes_ratings / _sync_foobar_ratings (plex_service.py:228-246)
SyncNotImplemented(message) ==
    [success |-> FALSE, message |-> message, synced |-> 0, conflicts |-> 0,
     failed |-> 0]

\* plex_service.py:205-226
PlexService_sync_ratings_from_source(source, dry_run) ==
    IF Lower(source) = "itunes"
      THEN Returned(SyncNotImplemented("iTunes sync not yet implemented"))
    ELSE IF Lower(source) = "foobar2000"
      THEN Returned(SyncNotImplemented("foobar2000 sync not yet implemented"))
    ELSE Raised("Unsupported source")

\* plex_service.py:248-268: the placeholder is a dict of three entries.
PlexService_get_similar_tracks(track_key, limit) ==
    Returned([success |-> FALSE,
              message |-> "Similarity recommendations not yet implemented",
              recommendations |-> <<>>])

\* plex_service.py:270-294
PlexService_get_recommendations_based_on_ratings(min_rating, limit) ==
    Returned([success |-> FALSE,
              message |-> "Rating-based recommendations not yet implemented",
              recommendations |-> <<>>])

\* len() of a dict: the number of its keys
DictLen(value) == Cardinality(DOMAIN value)

\* request.args.get(name, default, type=...): the default when absent
ArgOr(value, default) == IF value = None THEN default ELSE value

\* ---------------------------------------------------------- api/playlists.py
\* GET /api/playlists
get_playlists(i, netOk) ==
    /\ req[i].pc = "dispatch"
    /\ IF playlists_plex_service = 0
         THEN Respond(i, playlists_plex_service, NotInitialized("playlists", <<>>))
         ELSE LET r == PlexService_get_playlists("audio", netOk)
              IN  IF r.raised
                    THEN Respond(i, playlists_plex_service, Failed("playlists", <<>>,
                                           "Failed to fetch playlists", r.message))
                    ELSE Respond(i, playlists_plex_service,
                                 Success("playlists", <<>>, 200, r.value, 0))
    /\ UNCHANGED <<lifecycle, server>>

\* GET /api/playlists/<playlist_id>/items?limit=
get_playlist_items(i, playlist_id, limit, netOk) ==
    /\ req[i].pc = "dispatch"
    /\ LET args == [playlist_id |-> playlist_id, limit |-> limit]
       IN  IF playlists_plex_service = 0
             THEN Respond(i, playlists_plex_service, NotInitialized("items", args))
             ELSE LET r == PlexService_get_playlist_items(playlist_id,
                                                          ArgOr(limit, 50), netOk)
                  IN  IF r.raised
                        THEN Respond(i, playlists_plex_service, Failed("items", args,
                                               "Failed to fetch playlist items", r.message))
                        ELSE Respond(i, playlists_plex_service,
                                     Success("items", args, 200, r.value, 0))
    /\ UNCHANGED <<lifecycle, server>>

\* Variant that tests `title is None`.
TitleGiven_not_none(title) == title # NoneStr

\* `if not title` (playlists.py:87)
TitleGiven(title) == title \notin {NoneStr, ""}

\* POST /api/playlists {title, description}
create_playlist(i, title, netOk) ==
    /\ req[i].pc = "dispatch"
    /\ LET args == [title |-> title]
       IN  IF playlists_plex_service = 0
             THEN Respond(i, playlists_plex_service,
                          NotInitialized("create", args)) /\ UNCHANGED server
           ELSE IF ~TitleGiven(title)
             THEN Respond(i, playlists_plex_service,
                          BadRequest("create", args, "Playlist title is required"))
                  /\ UNCHANGED server
           ELSE LET r == PlexService_create_playlist(title, "", netOk)
                IN  IF r.raised
                      THEN Respond(i, playlists_plex_service, Failed("create", args,
                                             "Failed to create playlist", r.message))
                           /\ UNCHANGED server
                      ELSE /\ Respond(i, playlists_plex_service,
                                      Success("create", args, 201, r.value, 0))
                           /\ srvPlaylists' = CreatedPlaylists(title)
                           /\ UNCHANGED userRating
    /\ UNCHANGED lifecycle

\* ------------------------------------------------------------ api/ratings.py
\* `if not track_key or rating is None` (ratings.py:36)
RateFieldsGiven(track_key, rating) == track_key \notin {NoneStr, ""} /\ rating # None

\* Variant with exclusive bounds.
RatingInRange_exclusive(rating) == 0 < rating /\ rating < Pts(10)

\* `0 <= rating <= 10` (ratings.py:39)
RatingInRange(rating) == 0 <= rating /\ rating <= Pts(10)

\* POST /api/ratings/rate {track_key, rating}
rate_track(i, track_key, rating, netOk) ==
    /\ req[i].pc = "dispatch"
    /\ LET args == [track_key |-> track_key, rating |-> rating]
       IN  IF ratings_plex_service = 0
             THEN Respond(i, ratings_plex_service,
                          NotInitialized("rate", args)) /\ UNCHANGED server
           ELSE IF ~RateFieldsGiven(track_key, rating)
             THEN Respond(i, ratings_plex_service,
                          BadRequest("rate", args, "track_key and rating are required"))
                  /\ UNCHANGED server
           ELSE IF ~RatingInRange(rating)
             THEN Respond(i, ratings_plex_service,
                          BadRequest("rate", args, "rating must be between 0 and 10"))
                  /\ UNCHANGED server
           ELSE LET r == PlexService_rate_track(track_key, rating, netOk)
                IN  IF r.raised
                      THEN Respond(i, ratings_plex_service,
                                   Failed("rate", args, "Failed to rate track", r.message))
                           /\ UNCHANGED server
                      ELSE /\ Respond(i, ratings_plex_service,
                                      Success("rate", args, 200, <<>>, 0))
                           /\ userRating' = RatedTracks(track_key, rating)
                           /\ UNCHANGED srvPlaylists
    /\ UNCHANGED lifecycle

\* GET /api/ratings/top-rated?min_rating=&limit=
get_top_rated(i, min_rating, limit, netOk) ==
    /\ req[i].pc = "dispatch"
    /\ LET args == [min_rating |-> min_rating, limit |-> limit]
       IN  IF ratings_plex_service = 0
             THEN Respond(i, ratings_plex_service, NotInitialized("top_rated", args))
             ELSE LET r == PlexService_get_top_rated_tracks(ArgOr(min_rating, Pts(7)),
                                                            ArgOr(limit, 50), netOk)
                  IN  IF r.raised
                        THEN Respond(i, ratings_plex_service, Failed("top_rated", args,
                                               "Failed to fetch top-rated tracks", r.message))
                        ELSE Respond(i, ratings_plex_service,
                                     Success("top_rated", args, 200, r.value,
                                                Len(r.value)))
    /\ UNCHANGED <<lifecycle, server>>

\* `if not source` (ratings.py:99)
SourceGiven(source) == source \notin {NoneStr, ""}

\* POST /api/ratings/sync {source, dry_run}
sync_ratings(i, source, dry_run) ==
    /\ req[i].pc = "dispatch"
    /\ LET args == [source |-> source, dry_run |-> dry_run]
       IN  IF ratings_plex_service = 0
             THEN Respond(i, ratings_plex_service, NotInitialized("sync", args))
           ELSE IF ~SourceGiven(source)
             THEN Respond(i, ratings_plex_service,
                          BadRequest("sync", args, "source is required"))
           ELSE LET r == PlexService_sync_ratings_from_source(source, dry_run)
                IN  IF r.raised
                      THEN Respond(i, ratings_plex_service,
                                   Failed("sync", args, "Failed to sync ratings", r.message))
                      ELSE Respond(i, ratings_plex_service,
                                   Success("sync", args, 200, r.value, 0))
    /\ UNCHANGED <<lifecycle, server>>

\* ---------------------------------------------------- api/recommendations.py
\* `if not track_key` (recommendations.py:34)
TrackKeyGiven(track_key) == track_key \notin {NoneStr, ""}

\* GET /api/recommendations/similar?track_key=&limit=
get_similar_tracks(i, track_key, limit) ==
    /\ req[i].pc = "dispatch"
    /\ LET args == [track_key |-> track_key, limit |-> limit]
       IN  IF recommendations_plex_service = 0
             THEN Respond(i, recommendations_plex_service,
                          NotInitialized("similar", args))
           ELSE IF ~TrackKeyGiven(track_key)
             THEN Respond(i, recommendations_plex_service,
                          BadRequest("similar", args, "track_key is required"))
           ELSE LET r == PlexService_get_similar_tracks(track_key, ArgOr(limit, 10))
                IN  Respond(i, recommendations_plex_service,
                            Success("similar", args, 200, r.value, DictLen(r.value)))
    /\ UNCHANGED <<lifecycle, server>>

\* GET /api/recommendations/based-on-ratings?min_rating=&limit=
get_recommendations_based_on_ratings(i, min_rating, limit) ==
    /\ req[i].pc = "dispatch"
    /\ LET args == [min_rating |-> min_rating, limit |-> limit]
       IN  IF recommendations_plex_service = 0
             THEN Respond(i, recommendations_plex_service,
                          NotInitialized("based_on_ratings", args))
             ELSE LET r == PlexService_get_recommendations_based_on_ratings(
                               ArgOr(min_rating, Pts(8)), ArgOr(limit, 10))
                  IN  Respond(i, recommendations_plex_service,
                              Success("based_on_ratings", args, 200, r.value,
                                         DictLen(r.value)))
    /\ UNCHANGED <<lifecycle, server>>

\* ------------------------------------------------------------------ inputs
\* Every combination of request parameters the model draws from: absent,
\* empty, valid and invalid values of each field.
AllInputs ==
    [playlist_id |-> {"p1", "zz"},
     limit       |-> {None, -1, 0, 1},
     title       |-> {NoneStr, "", "Mix"},
     track_key   |-> {NoneStr, "", "t1", "t2", "zz"},
     rating      |-> {None, -1, 0, 29, Pts(8), Pts(10), Pts(10) + 1},
     min_rating  |-> {None, -1, Pts(10)},
     source      |-> {NoneStr, "", "iTunes", "foobar2000", "winamp"},
     dry_run     |-> BOOLEAN]

\* One well-formed request per route.
TypicalInputs ==
    [playlist_id |-> {"p1"},
     limit       |-> {None},
     title       |-> {"Mix"},
     track_key   |-> {"t1"},
     rating      |-> {Pts(10)},
     min_rating  |-> {None},
     source      |-> {"iTunes"},
     dry_run     |-> {TRUE}]

\* ------------------------------------------------------------ specification
\* A step of the hook initialize_services in the thread of request i.
Hook(i) ==
    \/ initialize_services_test(i)
    \/ PlexService_init(i)
    \/ initialize_services_store(i)
    \/ load_playlists(i)
    \/ playlists_set_plex_service(i)
    \/ load_ratings(i)
    \/ ratings_set_plex_service(i)
    \/ load_recommendations(i)
    \/ recommendations_set_plex_service(i)

\* Flask dispatches request i to the handler of its route, with parameters
\* drawn from in.  The hook never looks at the request, so the route and
\* the parameters are drawn when the handler starts.
Dispatch(i, in) ==
    \/ health_check(i)
    \/ \E netOk \in BOOLEAN : get_playlists(i, netOk)
    \/ \E playlist_id \in in.playlist_id, limit \in in.limit, netOk \in BOOLEAN :
           get_playlist_items(i, playlist_id, limit, netOk)
    \/ \E title \in in.title, netOk \in BOOLEAN :
           /\ Len(srvPlaylists) < MaxPlaylists
           /\ create_playlist(i, title, netOk)
    \/ \E track_key \in in.track_key, rating \in in.rating, netOk \in BOOLEAN :
           rate_track(i, track_key, rating, netOk)
    \/ \E min_rating \in in.min_rating, limit \in in.limit, netOk \in BOOLEAN :
           get_top_rated(i, min_rating, limit, netOk)
    \/ \E source \in in.source, dry_run \in in.dry_run : sync_ratings(i, source, dry_run)
    \/ \E track_key \in in.track_key, limit \in in.limit :
           get_similar_tracks(i, track_key, limit)
    \/ \E min_rating \in in.min_rating, limit \in in.limit :
           get_recommendations_based_on_ratings(i, min_rating, limit)

\* No other request is being served.
Alone(i) == \A j \in Requests \ {i} : req[j].pc \in {"new", "done"}

\* The threaded server: requests arrive at any time and their threads
\* interleave statement by statement.
Next ==
    \E i \in Requests : Arrive(i) \/ Hook(i) \/ Dispatch(i, TypicalInputs)

Spec == Init /\ [][Next]_vars

\* Requests one after another, each with any parameters.
NextSeq ==
    \E i \in Requests : (Alone(i) /\ Arrive(i)) \/ Hook(i) \/ Dispatch(i, AllInputs)

SeqSpec == Init /\ [][NextSeq]_vars
\* ================================================================== claims
\* The hook of request i has returned.
HookDone(i) == req[i].pc = "dispatch"

\* The four references to the adapter.
References ==
    {plex_service, playlists_plex_service, ratings_plex_service,
     recommendations_plex_service}

\* ---------------------------------------------------------------------- C1
C1_State ==
    /\ \A i \in Requests :
         /\ req[i].attempts <= 1
         /\ (HookDone(i) /\ req[i].found = "None") => req[i].attempts = 1
         /\ req[i].failed => (req[i].inst = 0 /\ i \notin References)
         /\ (HookDone(i) /\ req[i].inst # 0) => plex_service # 0
    /\ resp.found = "None" => resp.attempts = 1

C1_Step ==
    \A i \in Requests :
        (~req[i].failed /\ req'[i].failed) =>
            UNCHANGED <<plex_service, playlists_plex_service, ratings_plex_service,
                        recommendations_plex_service>>

\* C1: a request whose hook finds the lifecycle Uninitialized makes exactly
\* one construction attempt; a failed attempt publishes no reference and
\* leaves every reference as it was (the state stays Uninitialized), so the
\* next request that finds it Uninitialized attempts again; a successful
\* attempt makes the lifecycle Ready.
C1_LifecycleRetry == []C1_State /\ [][C1_Step]_vars

\* A request that arrived after a failed construction found the lifecycle
\* Uninitialized, constructed again and made it Ready.
C1_Witness ==
    \E i \in Requests :
        /\ HookDone(i) /\ req[i].afterFail /\ req[i].found = "None"
        /\ req[i].attempts = 1 /\ req[i].inst = i /\ plex_service = i

\* ---------------------------------------------------------------------- C2
\* No hook is between its first and its last statement.
NoHookInProgress == \A i \in Requests : req[i].pc \in {"new", "dispatch", "done"}

\* C2: once no initialization hook is in progress and the lifecycle is
\* Ready, the application's reference and those of the playlists, ratings
\* and recommendations modules denote the same adapter instance.
C2_SingleSharedAdapter ==
    (NoHookInProgress /\ plex_service # 0) => Cardinality(References) = 1

\* ---------------------------------------------------------------------- C3
\* The hook of the request answered by r found the lifecycle Ready or made
\* it Ready.
HookReady(r) == r.found = "Ready" \/ (r.found = "None" /\ ~r.failed)

\* C3: a non-health request whose hook found the lifecycle Ready, or made it
\* Ready, is not answered 'Plex service not initialized'.
C3_ReadyBeforeHandling ==
    (resp.route \notin {"-", "health"} /\ HookReady(resp))
        => (resp.avail /\ resp.error # "Plex service not initialized")

\* ---------------------------------------------------------------------- C4
C4_State ==
    \A i \in Requests :
        req[i].lateStart => (req[i].attempts = 0 /\ req[i].inst = 0
                             /\ req[i].found # "None")

\* C4: once the shared reference is set it is never reset to None, and a
\* request that arrives afterwards constructs no adapter, also after
\* requests whose adapter operation failed.
C4_NeverBack == []C4_State /\ [][plex_service # 0 => plex_service' # 0]_vars

\* A request that arrived when the lifecycle was Ready has passed its hook,
\* and the last response reports a failed adapter operation.
C4_Witness ==
    /\ plex_service # 0
    /\ resp.status = 500 /\ resp.ops = 1
    /\ \E i \in Requests : HookDone(i) /\ req[i].lateStart
\* ---------------------------------------------------------------------- C5
\* C5: a non-health handler that runs while the plex_service of its module
\* is not set answers 500 'Plex service not initialized', whatever the
\* request's parameters, and invokes no adapter operation.
C5_NotInitialized ==
    (resp.route \notin {"-", "health"} /\ ~resp.avail)
        => /\ resp.status = 500
           /\ resp.error = "Plex service not initialized"
           /\ resp.ops = 0

\* A rate request with an out-of-range rating was answered while the
\* adapter was not initialized.
C5_Witness ==
    /\ resp.route = "rate" /\ ~resp.avail
    /\ resp.args.rating = Pts(10) + 1 /\ resp.args.track_key = "t1"
    /\ resp.status = 500

\* ---------------------------------------------------------------------- C6
\* C6: GET /api/health answers 200 with status 'ok' in every lifecycle
\* state, also when the construction attempted by the same request failed.
C6_HealthAlwaysOk ==
    resp.route = "health" => (resp.status = 200 /\ resp.body.status = "ok")

\* A health request whose own hook failed to construct the adapter was
\* answered while the lifecycle was Uninitialized.
C6_Witness ==
    resp.route = "health" /\ resp.failed /\ resp.attempts = 1 /\ plex_service = 0

\* ---------------------------------------------------------------------- C7
\* The request answered by r fails validation: create without a title or
\* with an empty one; rate without track_key, without rating, or with a
\* rating outside 0..10; sync without source; similar without track_key.
FailsValidation(r) ==
    \/ r.route = "create" /\ r.args.title \in {NoneStr, ""}
    \/ r.route = "rate" /\ \/ r.args.track_key \in {NoneStr, ""}
                           \/ r.args.rating = None
                           \/ r.args.rating < 0
                           \/ r.args.rating > Pts(10)
    \/ r.route = "sync" /\ r.args.source \in {NoneStr, ""}
    \/ r.route = "similar" /\ r.args.track_key \in {NoneStr, ""}

\* C7 as stated: a request that fails validation is answered 400 and neither
\* an adapter operation nor an adapter construction happens during it.
C7_NoNetworkCallAtAll ==
    FailsValidation(resp)
        => (resp.status = 400 /\ resp.ops = 0 /\ resp.attempts = 0)

\* C7 (amended): a request that fails validation and whose handler finds the
\* adapter available is answered 400 and its handler invokes no adapter
\* operation; the construction made by the hook of the same request comes
\* before validation.
C7_ValidationBeforeAdapter ==
    (FailsValidation(resp) /\ resp.avail)
        => (resp.status = 400 /\ resp.ops = 0)

\* A create request with an empty title was rejected after the hook of the
\* same request had constructed the adapter.
C7_Witness ==
    /\ resp.route = "create" /\ resp.args.title = "" /\ resp.avail
    /\ resp.status = 400 /\ resp.attempts = 1

\* ---------------------------------------------------------------------- C8
\* C8: with the adapter available and a non-empty track_key, a rating r with
\* r < 0 or r > 10 is rejected with 400, and a rating with 0 <= r <= 10
\* passes validation: rateTrack is invoked.
C8_RatingBoundaries ==
    (/\ resp.route = "rate" /\ resp.avail
     /\ resp.args.track_key \notin {NoneStr, ""} /\ resp.args.rating # None)
        => /\ (resp.args.rating < 0 \/ resp.args.rating > Pts(10))
                => (resp.status = 400 /\ resp.ops = 0)
           /\ (0 <= resp.args.rating /\ resp.args.rating <= Pts(10))
                => (resp.status # 400 /\ resp.ops = 1)

\* The boundary ratings 0 and 10 have been accepted, the last one now.
C8_Witness ==
    /\ resp.route = "rate" /\ resp.avail /\ resp.status = 200
    /\ resp.args.rating \in {0, Pts(10)}
    /\ resp.ratings[resp.args.track_key] \in {0, ToNative(Pts(10))}
    /\ resp.ratings[resp.args.track_key] # ToNative(resp.args.rating)

\* ---------------------------------------------------------------------- C9
\* The rating of a response entry e is the public value of the native rating
\* the server held for the track (an unrated track has none).
OnPublicScale(e, ratings) ==
    IF ratings[e.key] = None
      THEN e.userRating = None
      ELSE /\ 2 * e.userRating = ratings[e.key]
           /\ 0 <= e.userRating /\ e.userRating <= Pts(10)

\* C9: every userRating of a playlist-items response and of a top-rated
\* response is on the public 0..10 scale: the native rating divided by 2.
C9_RatingsOnPublicScale ==
    (resp.route \in {"items", "top_rated"} /\ resp.status = 200)
        => \A n \in 1..Len(resp.body) : OnPublicScale(resp.body[n], resp.ratings)

\* --------------------------------------------------------------------- C10
\* Python's round() of a count of quarter points: to the nearest whole
\* point, a tie to the even one.
PyRound(q) ==
    LET whole == q \div 4
        part == q % 4
    IN  IF part < 2 THEN 4 * whole
        ELSE IF part > 2 THEN 4 * (whole + 1)
        ELSE IF whole % 2 = 0 THEN 4 * whole ELSE 4 * (whole + 1)

\* The last response reports a successful rateTrack.
Rated == resp.route = "rate" /\ resp.status = 200

\* C10 as stated: rateTrack writes round(2 * r), and native / 2 gives r back.
C10_RoundedRoundTrip ==
    Rated => /\ userRating[resp.args.track_key] = PyRound(2 * resp.args.rating)
             /\ ToPublic(userRating[resp.args.track_key]) = resp.args.rating

\* C10 (amended): rateTrack writes 2 * r, unrounded, and native / 2 gives r
\* back.
C10_RoundTrip ==
    Rated => /\ userRating[resp.args.track_key] = 2 * resp.args.rating
             /\ ToPublic(userRating[resp.args.track_key]) = resp.args.rating

\* The rating 7.25 was written as 14.5.
C10_Witness ==
    Rated /\ resp.args.rating = 29 /\ userRating[resp.args.track_key] = 58
\* --------------------------------------------------------------------- C11
\* The request answered by r is a sync request, handled with the adapter
\* available, whose source is given and is not a supported one.
UnknownSource(r) ==
    /\ r.route = "sync" /\ r.avail
    /\ r.args.source \notin {NoneStr, ""}
    /\ Lower(r.args.source) \notin {"itunes", "foobar2000"}

\* C11: POST /api/ratings/sync with a non-empty unsupported source is
\* answered with a client error (4xx), not with 500.
C11_UnknownSourceClientError ==
    UnknownSource(resp) => (400 <= resp.status /\ resp.status <= 499)
\* --------------------------------------------------------------------- C12
\* The playlist keys the server knows.
PlaylistKeys == {srvPlaylists[n].key : n \in 1..Len(srvPlaylists)}

\* The adapter operation of the request answered by r cannot but raise: an
\* unknown playlist key, an unknown track key, an unsupported source.
AdapterMustRaise(r) ==
    \/ r.route = "items" /\ r.args.playlist_id \notin PlaylistKeys
    \/ /\ r.route = "rate"
       /\ r.args.track_key \notin ({NoneStr, ""} \cup TrackKeys)
       /\ r.args.rating # None /\ 0 <= r.args.rating /\ r.args.rating <= Pts(10)
    \/ UnknownSource(r)

C12_State ==
    /\ (resp.avail /\ AdapterMustRaise(resp))
           => (resp.status = 500 /\ resp.ops = 1 /\ resp.message # "")
    /\ resp.message # "" => (resp.status = 500 /\ resp.ops = 1)

C12_Step ==
    \A i \in Requests :
        (req[i].pc = "dispatch" /\ req'[i].pc = "done")
            => UNCHANGED <<plex_service, playlists_plex_service,
                           ratings_plex_service, recommendations_plex_service>>

\* C12: an error raised by the invoked adapter operation (unknown playlist
\* or track key, connection loss, unsupported source) is answered 500 with
\* the error's message whatever its kind; the operation is invoked once and
\* the handler leaves the lifecycle as it is.
C12_UniformErrorCollapse == []C12_State /\ [][C12_Step]_vars

\* An unknown playlist key was answered 500 with the adapter still Ready.
C12_Witness ==
    /\ resp.route = "items" /\ resp.message = "NotFound" /\ resp.status = 500
    /\ plex_service # 0 /\ playlists_plex_service # 0
\* --------------------------------------------------------------------- C13
\* The position of track k in the library scan.
LibraryPos(k) == CHOOSE n \in 1..Len(LibraryTracks) : LibraryTracks[n] = k

\* Track a comes before track b in the order of topRatedTracks: a higher
\* native rating first, the scan order among equal ratings.
RankedBefore(a, b, ratings) ==
    \/ ratings[a] > ratings[b]
    \/ ratings[a] = ratings[b] /\ LibraryPos(a) < LibraryPos(b)

\* The tracks that have a rating of at least min_rating (public scale).
Qualifying(min_rating, ratings) ==
    {k \in TrackKeys : ratings[k] # None /\ ratings[k] >= 2 * min_rating}

\* body is what topRatedTracks(min_rating, limit) has to return when the
\* library holds ratings.
IsTopRated(body, min_rating, limit, ratings) ==
    LET keys == {body[n].key : n \in 1..Len(body)}
        qualifying == Qualifying(min_rating, ratings)
    IN  /\ Len(body) <= limit
        /\ keys \subseteq qualifying
        /\ \A m, n \in 1..Len(body) :
               m < n => RankedBefore(body[m].key, body[n].key, ratings)
        /\ \A k \in qualifying \ keys :
               /\ Len(body) = limit
               /\ \A n \in 1..Len(body) : RankedBefore(body[n].key, k, ratings)

\* C13: for every library content, min_rating and limit the route passes
\* (defaults 7 and 50), a top-rated response has at most limit entries, only
\* tracks rated at least 2 * min_rating natively, in non-increasing rating
\* with equal ratings in scan order, and is exactly the first limit entries
\* of that list.
C13_TopRated ==
    (resp.route = "top_rated" /\ resp.status = 200)
        => IsTopRated(resp.body, ArgOr(resp.args.min_rating, Pts(7)),
                      ArgOr(resp.args.limit, 50), resp.ratings)
\* --------------------------------------------------------------------- C14
\* The playlist of the external server that has the key, where there is one.
PlaylistOf(key) ==
    srvPlaylists[CHOOSE n \in 1..Len(srvPlaylists) : srvPlaylists[n].key = key]

\* body is a prefix, of at most limit entries, of items.
IsPrefixWithin(body, items, limit) ==
    /\ Len(body) <= limit
    /\ Len(body) <= Len(items)
    /\ \A n \in 1..Len(body) : body[n].key = items[n]

\* C14: with the adapter available, GET /api/playlists/<key>/items for a known
\* key answers at most limit items (default 50), a prefix of the playlist's
\* items in server order; for an unknown key it fails and returns no items.
C14_PlaylistItems ==
    (resp.route = "items" /\ resp.avail) =>
        IF resp.args.playlist_id \in PlaylistKeys
        THEN resp.status = 200 =>
                 IsPrefixWithin(resp.body,
                                PlaylistOf(resp.args.playlist_id).items,
                                ArgOr(resp.args.limit, 50))
        ELSE resp.status = 500 /\ resp.body = <<>>
\* --------------------------------------------------------------------- C15
\* The position of the playlist with the key in the server's collection.
ServerPos(key) == CHOOSE n \in 1..Len(srvPlaylists) : srvPlaylists[n].key = key

PlaylistTypes == {"audio", "video", "photo"}

\* body lists exactly the server's playlists of the type, in server order.
ListsExactly(body, playlist_type) ==
    LET keys == {body[n].key : n \in 1..Len(body)}
    IN  /\ \A n \in 1..Len(body) :
               /\ body[n].key \in PlaylistKeys
               /\ srvPlaylists[ServerPos(body[n].key)].playlistType = playlist_type
        /\ \A n \in 1..Len(srvPlaylists) :
               srvPlaylists[n].playlistType = playlist_type
                   => srvPlaylists[n].key \in keys
        /\ \A m, n \in 1..Len(body) :
               m < n => ServerPos(body[m].key) < ServerPos(body[n].key)

\* C15: listPlaylists(type) returns exactly the server's playlists of the
\* requested type, in server order, and none when no playlist has the type;
\* a successful GET /api/playlists lists exactly the 'audio' playlists.
C15_PlaylistsByType ==
    /\ \A t \in PlaylistTypes :
           ListsExactly(PlexService_get_playlists(t, TRUE).value, t)
    /\ (resp.route = "playlists" /\ resp.status = 200)
           => ListsExactly(resp.body, "audio")

C15_Witness ==
    /\ resp.route = "playlists" /\ resp.status = 200 /\ Len(resp.body) = 2
    /\ \E n \in 1..Len(srvPlaylists) : srvPlaylists[n].playlistType = "video"
    /\ PlexService_get_playlists("photo", TRUE).value = <<>>
\* --------------------------------------------------------------------- C16
\* A recommendation request that reaches the adapter.
ReachesRecommendations(r) ==
    /\ r.avail
    /\ \/ r.route = "similar" /\ r.args.track_key \notin {NoneStr, ""}
       \/ r.route = "based_on_ratings"

\* C16: with the adapter available, GET /api/recommendations/similar (with a
\* track_key) and GET /api/recommendations/based-on-ratings answer 200 with
\* `count` the number of recommendations, 0 for the placeholder, and
\* `recommendations` the list of them, which is empty.
C16_StubCountsRecommendations ==
    ReachesRecommendations(resp)
        => /\ resp.status = 200
           /\ resp.count = 0
           /\ DOMAIN resp.body = {}
\* --------------------------------------------------------------------- C17
\* A step that answers a successful createPlaylist: one playlist is added
\* after the others, the ratings stay.
CreatesOnePlaylist ==
    /\ resp'.route = "create" /\ resp'.status = 201
    /\ Len(srvPlaylists') = Len(srvPlaylists) + 1
    /\ SubSeq(srvPlaylists', 1, Len(srvPlaylists)) = srvPlaylists
    /\ UNCHANGED userRating

\* A step that answers a successful rateTrack: the rating of the addressed
\* track is the only one that may change, the playlists stay.
RatesOneTrack ==
    /\ resp'.route = "rate" /\ resp'.status = 200
    /\ resp'.args.track_key \in TrackKeys
    /\ \A k \in TrackKeys \ {resp'.args.track_key} : userRating'[k] = userRating[k]
    /\ UNCHANGED srvPlaylists

C17_Step == UNCHANGED server \/ CreatesOnePlaylist \/ RatesOneTrack

\* C17: the external server's playlists and ratings change only in a step
\* that answers a successful createPlaylist (one playlist added) or a
\* successful rateTrack (only the addressed track's rating changes); every
\* other request (list, items, top-rated, sync, recommendations, health, a
\* 400, 'not initialized', a failure) leaves them unchanged.
C17_Frame == [][C17_Step]_vars

C17_Witness ==
    /\ resp.route = "rate" /\ resp.status = 200 /\ resp.args.track_key = "t2"
    /\ userRating["t2"] # None /\ userRating["t1"] = Pts(16)
    /\ Len(srvPlaylists) = 3
\* --------------------------------------------------------------------- C18
\* The positions of a request's hook after its store of the shared reference.
PastStore == {"load_playlists", "set_playlists", "load_ratings", "set_ratings",
              "load_recommendations", "set_recommendations", "dispatch"}

\* C18: as long as every request was handled strictly after the one before
\* it, at most one adapter instance has been constructed; more than one
\* instance, and more than one store of the shared reference, come only with
\* requests that arrive while another is being handled (the witness is such
\* an interleaving).
C18_SequentialConstructsOnce == ~overlapped => instances <= 1

\* Two requests arrived together while the lifecycle was Uninitialized; both
\* constructed an instance, request i stored its own, and the shared
\* reference now holds the instance another request stored over it.
C18_Witness ==
    /\ overlapped /\ instances >= 2
    /\ \E i \in Requests :
           /\ req[i].inst = i /\ req[i].pc \in PastStore
           /\ ~req[i].lateStart /\ req[i].found = "None"
           /\ plex_service \notin {0, i}
====
